---------------------------- MODULE Spec2Model ----------------------------
(***************************************************************************)
(* Presence reconciliation of the DDNet tracker bot (src/main.py, with     *)
(* src/api.py and src/tracker.py): the timer tick check_players_loop, the  *)
(* setchannel command, and the two notification handlers they share,       *)
(* against a message sink (the chat channel) and a server directory.       *)
(*                                                                         *)
(* The bot runs on one asyncio event loop: code between two awaits is      *)
(* atomic, and tasks interleave only at awaits.  Every action below is one *)
(* such stretch: it starts where an await returns and runs to the next     *)
(* await of the same task (or to the end of the handler).                  *)
(***************************************************************************)
EXTENDS Integers, Sequences, FiniteSets, TLC

\* ------------------------------------------------------------------ bounds
\* Message identifiers the sink can have in use at once (live or still
\* referenced); a send that finds none free fails.
MaxMsgs == 2
\* setchannel commands issued in one run.
MaxSetChannel == 1
\* Longest address list handed to get_server_key on its own.
MaxAddrList == 3

\* --------------------------------------------------------------- constants
\* channel.history(limit=50)
HistoryLimit == 50

\* Python's None where a channel or a key is expected; a message id that is
\* None is written 0 (Python tests it with "if msg_id").
None == "None"
\* What fetch_servers returns on any failure (None): a value without servers.
NoData == [failed |-> TRUE]

\* The two text channels of the guild; the first is the guild's system channel.
Channels == {"c1", "c2"}
SystemChannel == "c1"

\* Server addresses, listed in ascending string order.
Addrs == <<"10.0.0.1:8303", "10.0.0.2:8303", "10.0.0.3:8303">>

Range(s) == {s[i] : i \in 1..Len(s)}

\* Python's ordering of the address strings.
StrLeq(a, b) ==
    LET rank(x) == CHOOSE i \in 1..Len(Addrs) : Addrs[i] = x
    IN  rank(a) <= rank(b)

\* str.lower() on the player names the model uses.
Lower(n) == IF n = "A" THEN "a" ELSE IF n = "B" THEN "b" ELSE n

\* ------------------------------------------------- ordered dicts (Python)
\* A dict is the sequence of its items [k, v] in insertion order.
DictKeys(d) == {d[i].k : i \in 1..Len(d)}
DictHas(d, k) == \E i \in 1..Len(d) : d[i].k = k
DictGet(d, k, default) ==
    IF DictHas(d, k) THEN d[CHOOSE i \in 1..Len(d) : d[i].k = k].v ELSE default
DictSet(d, k, v) ==
    IF DictHas(d, k)
    THEN [i \in 1..Len(d) |-> IF d[i].k = k THEN [k |-> k, v |-> v] ELSE d[i]]
    ELSE Append(d, [k |-> k, v |-> v])
DictDel(d, k) == SelectSeq(d, LAMBDA e : e.k # k)
DictValues(d) == [i \in 1..Len(d) |-> d[i].v]
DictKeyList(d) == [i \in 1..Len(d) |-> d[i].k]

\* ------------------------------------------------------- directory values
Client(n) == [name |-> n]
Server(addrs, names) ==
    [addresses |-> addrs,
     info |-> [clients |-> [i \in 1..Len(names) |-> Client(names[i])]]]
Snapshot(srvs) == [servers |-> srvs]

A1 == Addrs[1]
A2 == Addrs[2]

\* The directory listings a fetch can return: the directory changes freely
\* between two fetches.
Snapshots ==
    { Snapshot(<<>>),
      Snapshot(<<Server(<<A1>>, <<"a">>)>>),
      Snapshot(<<Server(<<A1>>, <<"A", "b">>)>>),
      Snapshot(<<Server(<<A1>>, <<"a">>), Server(<<A2>>, <<"b">>)>>),
      Snapshot(<<Server(<<>>, <<"a">>)>>) }

\* ------------------------------------------------------------ src/api.py
ServerMatches(server, target) ==
    IF "info" \in DOMAIN server /\ "clients" \in DOMAIN server.info
    THEN LET cs == SelectSeq(server.info.clients,
                             LAMBDA c : "name" \in DOMAIN c /\ Lower(c.name) = target)
         IN  [j \in 1..Len(cs) |-> [player |-> cs[j], server |-> server]]
    ELSE <<>>

\* A search that stops at the first server with a match.
FindInFirst(srvs, i, target) ==
    LET S == {n \in i..Len(srvs) : ServerMatches(srvs[n], target) # <<>>}
    IN  IF S = {} THEN <<>>
        ELSE ServerMatches(srvs[CHOOSE n \in S : \A m \in S : n <= m], target)

RECURSIVE FindIn(_, _, _)
FindIn(srvs, i, target) ==
    IF i > Len(srvs) THEN <<>>
    ELSE ServerMatches(srvs[i], target) \o FindIn(srvs, i + 1, target)

\* DDNetAPI.find_player
find_player(servers, player_name) ==
    IF servers = NoData \/ "servers" \notin DOMAIN servers
    THEN <<>>
    ELSE FindIn(servers.servers, 1, Lower(player_name))

\* ----------------------------------------------------------- src/main.py
\* sorted(): x goes in after the elements that are not greater than it.
InsertSorted(x, s) ==
    LET n == Cardinality({i \in 1..Len(s) : StrLeq(s[i], x)})
    IN  SubSeq(s, 1, n) \o <<x>> \o SubSeq(s, n + 1, Len(s))

RECURSIVE Sorted(_)
Sorted(l) ==
    IF l = <<>> THEN <<>>
    ELSE InsertSorted(l[Len(l)], Sorted(SubSeq(l, 1, Len(l) - 1)))

\* A key taken from the list as the API orders it.
get_server_key_unsorted(addr_list) ==
    IF addr_list = <<>> THEN "unknown" ELSE addr_list[1]

\* get_server_key: "unknown" for no list, else the first of sorted(addr_list).
get_server_key(addr_list) ==
    IF addr_list = <<>> THEN "unknown"
    ELSE LET sorted_addrs == Sorted(addr_list) IN sorted_addrs[1]

\* Lines 72-83: the watched players grouped by the first address of the
\* first instance found, in the iteration order of tracker.tracked_players.
RECURSIVE BuildCurrent(_, _, _, _)
BuildCurrent(data, tr, i, acc) ==
    IF i > Len(tr) THEN acc
    ELSE LET instances == find_player(data, tr[i])
         IN  IF instances = <<>> THEN BuildCurrent(data, tr, i + 1, acc)
             ELSE LET server_addr == instances[1].server.addresses[1]
                      entry == [name |-> tr[i],
                                info |-> instances[1].player,
                                server |-> instances[1].server]
                  IN  BuildCurrent(data, tr, i + 1,
                          DictSet(acc, server_addr,
                                  Append(DictGet(acc, server_addr, <<>>), entry)))

\* instances[0]['server']['addresses'][0] raises KeyError or IndexError.
IndexRaises(data, tr) ==
    \E i \in 1..Len(tr) :
        LET instances == find_player(data, tr[i])
        IN  /\ instances # <<>>
            /\ \/ "addresses" \notin DOMAIN instances[1].server
               \/ instances[1].server.addresses = <<>>

\* Lines 120-126: re-key the groups by get_server_key of the group's first
\* player's server; a later group with the same key replaces the earlier.
RECURSIVE BuildStable(_, _, _)
BuildStable(cur, i, acc) ==
    IF i > Len(cur) THEN acc
    ELSE LET players == cur[i].v
         IN  IF players # <<>>
             THEN LET srv == players[1].server
                      all_addrs == IF "addresses" \in DOMAIN srv
                                   THEN srv.addresses ELSE <<>>
                  IN  BuildStable(cur, i + 1,
                                  DictSet(acc, get_server_key(all_addrs), players))
             ELSE BuildStable(cur, i + 1, acc)

\* [p['name'] for p in players], for every key.
PlayerNames(players) == [i \in 1..Len(players) |-> players[i].name]
NamesOf(stable) ==
    [i \in 1..Len(stable) |-> [k |-> stable[i].k, v |-> PlayerNames(stable[i].v)]]

\* stable_current_state of a fetched listing, as {key: player names}.
StableState(data, tr) == NamesOf(BuildStable(BuildCurrent(data, tr, 1, <<>>), 1, <<>>))


\* ------------------------------------------------------------------ state
VARIABLES
    tracked,     \* tracker.tracked_players, in its iteration order
    listed,      \* config['tracked_players']
    last_known_state, \* tracker.last_known_state: {player name: state}
    config,      \* config['notification_channel_id'], None when not set
    cleanupDone, \* hasattr(bot, 'startup_cleanup_done')
    prev,        \* bot.previous_server_state: {key: player names}
    active,      \* active_messages: {key: message id}
    sink,        \* the live messages of the chat service, by id
    proc,        \* the timer task ("tick") and the setchannel command ("cmd")
    hist,        \* what the last tick saw and did (history, read by no action)
    nset,        \* setchannel commands issued so far
    call         \* a function called on its own: its arguments and its result

vars == <<tracked, listed, last_known_state, config, cleanupDone, prev, active, sink, proc, hist, nset, call>>

\* No function is being called on its own.
NoCall == [fn |-> "none", done |-> TRUE]

NoLog == [op |-> "none", key |-> None, edit |-> "none", send |-> "none", del |-> "none"]

\* A task that is not running: no locals.
Idle(result) ==
    [pc |-> "idle", chan |-> None, stable |-> <<>>, idx |-> 0, key |-> None,
     msg |-> 0, todo |-> <<>>, ids |-> <<>>, purge |-> {}, old |-> None,
     result |-> result, same |-> FALSE, steady |-> FALSE, reorder |-> FALSE,
     log |-> NoLog, ops |-> <<>>]

\* A message left in the channel by an earlier run of the bot.
Leftover == [chan |-> SystemChannel, author |-> "prior", key |-> A1, names |-> <<"a">>]

InitBot ==
    /\ listed = <<"a", "b">>
    /\ tracked = <<"a", "b">>
    /\ last_known_state = <<>>
    /\ config \in {None, SystemChannel}
    /\ cleanupDone = FALSE
    /\ prev = <<>>
    /\ active = <<>>
    /\ sink \in {[m \in S |-> Leftover] : S \in {{}, {1}}}
    /\ proc = [p \in {"tick", "cmd"} |-> Idle("none")]
    /\ hist = [snap |-> NoData, committed |-> FALSE, purges |-> 0]
    /\ nset = 0

Init == InitBot /\ call = NoCall

\* ------------------------------------------------------------------- sink
Live(m, ch) == m \in DOMAIN sink /\ sink[m].chan = ch

SinkAdd(m, rec) == [i \in DOMAIN sink \cup {m} |-> IF i = m THEN rec ELSE sink[i]]
SinkDel(m) == [i \in DOMAIN sink \ {m} |-> sink[i]]

\* Identifiers neither live nor held anywhere in the program: what the
\* service may hand out for a new message.
Referenced ==
    Range(DictValues(active))
    \cup UNION {{proc[p].msg} \cup Range(proc[p].ids) \cup proc[p].purge : p \in DOMAIN proc}
FreeIds == (1..MaxMsgs) \ (DOMAIN sink \cup Referenced)
NewId == CHOOSE m \in FreeIds : \A n \in FreeIds : m <= n

\* fetch_message followed by edit or delete: NotFound exactly when the
\* message is not in the channel, any other error at any time.
LookupOutcomes(m, ch) == IF Live(m, ch) THEN {"ok", "error"} ELSE {"notfound", "error"}
SendOutcomes == IF FreeIds = {} THEN {"error"} ELSE {"ok", "error"}

\* -------------------------------------------------------- channel lookup
\* Lines 85-100: the configured channel, else the first guild's system
\* channel.  bot.get_channel and bot.guilds read the client's cache, which
\* fills and empties with the gateway's guild events: with the cache empty
\* (cacheReady false) no channel is found.
ResolveChannel(cacheReady) ==
    IF ~cacheReady THEN None
    ELSE IF config # None THEN config ELSE SystemChannel


\* ------------------------------------------------- the two loops of a tick
\* A diff that notifies on every tick.
NeedsUpsertAlways(player_names, prev_players) == TRUE

\* A diff that compares the lists of names.
NeedsUpsertBySequence(player_names, prev_players) == player_names # prev_players

\* Line 134: set(player_names) != set(prev_players)
NeedsUpsert(player_names, prev_players) == Range(player_names) # Range(prev_players)

\* Lines 129-135: the next key from position j on that gets a notification,
\* read against bot.previous_server_state as it is now; 0 when there is none.
NextUpsert(stable, j, prevNow) ==
    LET S == {i \in j..Len(stable) :
                 NeedsUpsert(stable[i].v, DictGet(prevNow, stable[i].k, <<>>))}
    IN  IF S = {} THEN 0 ELSE CHOOSE i \in S : \A n \in S : i <= n

\* Lines 138-139: the keys of the previous state that are gone.
RemoveList(stable, prevNow) ==
    SelectSeq(DictKeyList(prevNow), LAMBDA k : ~DictHas(stable, k))

\* Line 302: remove_server_notification returns at once for an unbound key.
SkipUnbound(todo, activeNow) ==
    LET S == {i \in 1..Len(todo) : DictHas(activeNow, todo[i])}
    IN  IF S = {} THEN <<>>
        ELSE SubSeq(todo, CHOOSE i \in S : \A n \in S : i <= n, Len(todo))

\* Lines 138-147: run the removals in todo up to the next await; with none
\* left the tick commits (result "applied").
TickRemoves(rec, todo, activeNow) ==
    LET rest == SkipUnbound(todo, activeNow)
        n == Len(todo) - Len(rest) + (IF rest # <<>> THEN 1 ELSE 0)
        r1 == [rec EXCEPT !.ops = @ \o [i \in 1..n |-> [op |-> "remove", key |-> todo[i]]]]
    IN  IF rest # <<>>
        THEN [r1 EXCEPT !.pc = "delete", !.key = Head(rest),
                        !.msg = DictGet(activeNow, Head(rest), 0),
                        !.todo = Tail(rest),
                        !.log = [NoLog EXCEPT !.op = "remove", !.key = Head(rest)]]
        ELSE [r1 EXCEPT !.pc = "idle", !.result = "applied"]

\* Lines 128-147 from position j of the first loop up to the next await.
TickLoop(rec, j, prevNow, activeNow) ==
    LET i == NextUpsert(rec.stable, j, prevNow)
    IN  IF i # 0
        THEN [rec EXCEPT !.pc = "render", !.idx = i,
                         !.ops = Append(@, [op |-> "upsert", key |-> rec.stable[i].k]),
                         !.log = [NoLog EXCEPT !.op = "upsert", !.key = rec.stable[i].k]]
        ELSE TickRemoves(rec, RemoveList(rec.stable, prevNow), activeNow)

\* Lines 567-575 (setchannel): every key gets a notification, then the commit.
CmdLoop(rec, j) ==
    IF j <= Len(rec.stable)
    THEN [rec EXCEPT !.pc = "render", !.idx = j,
                     !.ops = Append(@, [op |-> "upsert", key |-> rec.stable[j].k]),
                     !.log = [NoLog EXCEPT !.op = "upsert", !.key = rec.stable[j].k]]
    ELSE [rec EXCEPT !.pc = "idle", !.result = "applied"]

Resume(p, rec, prevNow, activeNow) ==
    IF p = "tick" THEN TickLoop(rec, rec.idx + 1, prevNow, activeNow)
    ELSE CmdLoop(rec, rec.idx + 1)

\* A commit at every end of a pass.
CommitsOnAnyEnd(rec) == rec.pc = "idle"

\* Lines 144-147 and 572-575: the commit of previous_server_state, done by
\* the stretch of code that ends the pass with result "applied".
Commits(rec) == rec.pc = "idle" /\ rec.result = "applied"

\* Task p goes on as rec; a task that has ended drops its locals.
Goes(p, rec, histNow) ==
    /\ proc' = [proc EXCEPT ![p] =
                   IF rec.pc # "idle" THEN rec
                   ELSE IF p = "cmd" THEN Idle("none")
                   ELSE [Idle(rec.result) EXCEPT !.same = rec.same, !.steady = rec.steady,
                                                 !.reorder = rec.reorder,
                                                 !.log = rec.log, !.ops = rec.ops]]
    /\ prev' = IF Commits(rec) THEN rec.stable ELSE prev
    /\ hist' = IF rec.pc # "idle" THEN histNow
               ELSE IF p = "tick"
                    THEN [histNow EXCEPT !.committed = Commits(rec)]
                    ELSE [histNow EXCEPT !.committed = FALSE]


End(rec, result) == [rec EXCEPT !.pc = "idle", !.result = result]

CurKey(rec) == rec.stable[rec.idx].k
CurNames(rec) == rec.stable[rec.idx].v

\* ------------------------------------------------- check_players_loop
\* The timer fires (tasks.loop): the pass starts and awaits the fetch.
TickStart ==
    /\ proc["tick"].pc = "idle"
    /\ proc' = [proc EXCEPT !["tick"] = [Idle("running") EXCEPT !.pc = "fetch"]]
    /\ UNCHANGED <<call, listed, last_known_state, nset, tracked, config, cleanupDone, prev, active, sink, hist>>

\* A check that lets a failed fetch through as an empty listing.
IsFailureNever(servers_data) == FALSE

\* Line 68: if not servers_data
IsFailure(servers_data) == servers_data = NoData

\* A cleanup that forgets to record that it ran.
MarkCleanupForgets(done) == done

\* Line 107: bot.startup_cleanup_done = True
MarkCleanup(done) == TRUE

\* Some key has the players of the previous state in another order.
Reordered(stable, prevNow) ==
    \E k \in DictKeys(stable) \cap DictKeys(prevNow) :
        /\ DictGet(stable, k, <<>>) # DictGet(prevNow, k, <<>>)
        /\ Range(DictGet(stable, k, <<>>)) = Range(DictGet(prevNow, k, <<>>))

\* Lines 67-147: fetch_servers returns one of the listings (None on any
\* failure); the pass runs to its first await: the history read of the
\* cleanup, a render, a delete, or straight to the commit.
TickFetchedFrom(listings) ==
    /\ proc["tick"].pc = "fetch"
    /\ \E data \in listings \cup {NoData}, cacheReady \in BOOLEAN :
          LET h1 == [hist EXCEPT !.snap = data]
              r1 == [proc["tick"] EXCEPT !.same = (data # NoData /\ data = hist.snap),
                                         !.steady = (data # NoData /\ data = hist.snap
                                                     /\ hist.committed),
                                         !.reorder = (data # NoData
                                                      /\ ~IndexRaises(data, tracked)
                                                      /\ Reordered(StableState(data, tracked),
                                                                   prev))]
              channel == ResolveChannel(cacheReady)
              r2 == [r1 EXCEPT !.chan = channel, !.stable = StableState(data, tracked)]
          IN  IF IsFailure(data)
              THEN Goes("tick", End(r1, "skipped"), h1) /\ UNCHANGED cleanupDone
              ELSE IF IndexRaises(data, tracked)
              THEN Goes("tick", End(r1, "indexerror"), h1) /\ UNCHANGED cleanupDone
              ELSE IF channel = None
              THEN Goes("tick", End(r1, "nochannel"), h1) /\ UNCHANGED cleanupDone
              ELSE IF ~cleanupDone
              THEN /\ cleanupDone' = MarkCleanup(cleanupDone)
                   /\ Goes("tick", [r2 EXCEPT !.pc = "history"],
                           [h1 EXCEPT !.purges = @ + 1])
              ELSE /\ Goes("tick", TickLoop(r2, 1, prev, active), h1)
                   /\ UNCHANGED cleanupDone
    /\ UNCHANGED <<call, listed, last_known_state, nset, tracked, config, active, sink>>

TickFetched == TickFetchedFrom(Snapshots)

\* Line 111: msg.author == bot.user, among the newest HistoryLimit messages.
OwnMessages(ch) ==
    {m \in DOMAIN sink : sink[m].chan = ch /\ sink[m].author \in {"self", "prior"}}
HistoryViews(ch) ==
    IF Cardinality(OwnMessages(ch)) <= HistoryLimit THEN {OwnMessages(ch)}
    ELSE {S \in SUBSET OwnMessages(ch) : Cardinality(S) = HistoryLimit}

\* Line 110: channel.history returns, or raises (lines 113-114).
TickHistory ==
    /\ proc["tick"].pc = "history"
    /\ \E res \in {"ok", "error"} :
          \E S \in IF res = "ok" THEN HistoryViews(proc["tick"].chan) ELSE {{}} :
              IF S = {}
              THEN Goes("tick", TickLoop(proc["tick"], 1, prev, active), hist)
              ELSE Goes("tick", [proc["tick"] EXCEPT !.pc = "purge", !.purge = S], hist)
    /\ UNCHANGED <<call, listed, last_known_state, nset, tracked, config, cleanupDone, active, sink>>

\* Lines 110-114: one msg.delete() of the cleanup returns; any exception
\* ends the cleanup and the pass goes on.
TickPurge ==
    /\ proc["tick"].pc = "purge"
    /\ \E m \in proc["tick"].purge :
          \E res \in LookupOutcomes(m, proc["tick"].chan) :
              LET rest == IF res = "ok" THEN proc["tick"].purge \ {m} ELSE {}
                  r1 == [proc["tick"] EXCEPT !.purge = rest]
              IN  /\ sink' = IF res = "ok" THEN SinkDel(m) ELSE sink
                  /\ IF rest = {}
                     THEN Goes("tick", TickLoop(r1, 1, prev, active), hist)
                     ELSE Goes("tick", r1, hist)
    /\ UNCHANGED <<call, listed, last_known_state, nset, tracked, config, cleanupDone, active>>

\* ------------------------------------------- send_grouped_notification
\* Lines 157-281: the embed is built and the image rendered; then the
\* binding is read and the edit or the send is issued.  An exception here
\* is not caught in the handler: it ends the caller's pass.
Render(p) ==
    /\ proc[p].pc = "render"
    /\ \E res \in {"ok", "raise"} :
          LET msg_id == DictGet(active, CurKey(proc[p]), 0)
          IN  IF res = "raise" THEN Goes(p, End(proc[p], "raised"), hist)
              ELSE IF msg_id # 0
              THEN Goes(p, [proc[p] EXCEPT !.pc = "edit", !.msg = msg_id], hist)
              ELSE Goes(p, [proc[p] EXCEPT !.pc = "send"], hist)
    /\ UNCHANGED <<call, listed, last_known_state, nset, tracked, config, cleanupDone, active, sink>>

\* A handler that takes a vanished message for an edited one.
FallsThroughOnErrorOnly(res) == res = "error"

\* Lines 286-290: which results of the edit leave sent = False.
FallsThrough(res) == res # "ok"

\* Lines 279-292: fetch_message and edit return.
Edit(p) ==
    /\ proc[p].pc = "edit"
    /\ \E res \in LookupOutcomes(proc[p].msg, proc[p].chan) :
          LET r1 == [proc[p] EXCEPT !.log.edit = res, !.msg = 0]
          IN  /\ sink' = IF res = "ok"
                         THEN [sink EXCEPT ![proc[p].msg] =
                                  [@ EXCEPT !.key = CurKey(proc[p]),
                                            !.names = CurNames(proc[p])]]
                         ELSE sink
              /\ IF FallsThrough(res)
                 THEN Goes(p, [r1 EXCEPT !.pc = "send"], hist)
                 ELSE Goes(p, Resume(p, r1, prev, active), hist)
    /\ UNCHANGED <<call, listed, last_known_state, nset, tracked, config, cleanupDone, active>>

\* Line 296: active_messages[server_addr] = msg.id
Bind(d, server_addr, id) == DictSet(d, server_addr, id)

\* Lines 292-298: channel.send returns, or raises.
Send(p) ==
    /\ proc[p].pc = "send"
    /\ \E res \in SendOutcomes :
          LET r1 == [proc[p] EXCEPT !.log.send = res]
              a1 == IF res = "ok" THEN Bind(active, CurKey(proc[p]), NewId) ELSE active
          IN  /\ sink' = IF res = "ok"
                         THEN SinkAdd(NewId, [chan |-> proc[p].chan, author |-> "self",
                                              key |-> CurKey(proc[p]),
                                              names |-> CurNames(proc[p])])
                         ELSE sink
              /\ active' = a1
              /\ Goes(p, Resume(p, r1, prev, a1), hist)
    /\ UNCHANGED <<call, listed, last_known_state, nset, tracked, config, cleanupDone>>

\* ------------------------------------------ remove_server_notification
\* A removal that keeps the binding when the delete failed.
UnbindOnSuccess(d, server_addr, res) == IF res = "error" THEN d ELSE DictDel(d, server_addr)

\* Line 312: del active_messages[server_addr], whatever the delete did.
Unbind(d, server_addr, res) == DictDel(d, server_addr)

\* Lines 303-312: fetch_message and delete return; the binding goes.  A key
\* that setchannel has cleared meanwhile makes the del raise KeyError, which
\* ends the pass.
TickDelete ==
    /\ proc["tick"].pc = "delete"
    /\ \E res \in LookupOutcomes(proc["tick"].msg, proc["tick"].chan) :
          LET rec == proc["tick"]
              r1 == [rec EXCEPT !.log.del = res, !.msg = 0]
              a1 == Unbind(active, rec.key, res)
          IN  /\ sink' = IF res = "ok" THEN SinkDel(rec.msg) ELSE sink
              /\ active' = a1
              /\ IF ~DictHas(active, rec.key)
                 THEN Goes("tick", End(r1, "raised"), hist)
                 ELSE Goes("tick", TickRemoves(r1, rec.todo, a1), hist)
    /\ UNCHANGED <<call, listed, last_known_state, nset, tracked, config, cleanupDone>>


\* ------------------------------------------------------------ setchannel
\* Lines 503-526: the command arrives in channel c.  The new channel is
\* stored; with a different, resolvable old channel the bound messages are
\* deleted there one by one and the bindings cleared.
SetChannel(c) ==
    /\ proc["cmd"].pc = "idle"
    /\ nset < MaxSetChannel
    /\ nset' = nset + 1
    /\ config' = c
    /\ \E cacheReady \in BOOLEAN :
       LET old_channel == IF config # None /\ config # c /\ cacheReady
                          THEN config ELSE None
           r0 == [Idle("running") EXCEPT !.chan = c, !.old = old_channel]
       IN  proc' = [proc EXCEPT !["cmd"] =
                       IF old_channel # None /\ active # <<>>
                       THEN [r0 EXCEPT !.pc = "cleanup", !.ids = DictValues(active)]
                       ELSE [r0 EXCEPT !.pc = "confirm"]]
    /\ hist' = [hist EXCEPT !.committed = FALSE]
    /\ UNCHANGED <<call, listed, last_known_state, tracked, cleanupDone, prev, active, sink>>

\* Lines 517-526: one fetch_message/delete in the old channel returns, its
\* errors ignored; after the last one active_messages.clear().
CmdCleanup ==
    /\ proc["cmd"].pc = "cleanup"
    /\ \E res \in LookupOutcomes(Head(proc["cmd"].ids), proc["cmd"].old) :
          LET rec == proc["cmd"]
              rest == Tail(rec.ids)
          IN  /\ sink' = IF res = "ok" THEN SinkDel(Head(rec.ids)) ELSE sink
              /\ active' = IF rest = <<>> THEN <<>> ELSE active
              /\ proc' = [proc EXCEPT !["cmd"] =
                             IF rest = <<>> THEN [rec EXCEPT !.pc = "confirm", !.ids = <<>>]
                             ELSE [rec EXCEPT !.ids = rest]]
    /\ hist' = [hist EXCEPT !.committed = FALSE]
    /\ UNCHANGED <<call, listed, last_known_state, nset, tracked, config, cleanupDone, prev>>

\* Lines 529-540: the confirmation is sent (an exception ends the command),
\* previous_server_state is reset, and after the sleep the fetch is awaited.
CmdConfirm ==
    /\ proc["cmd"].pc = "confirm"
    /\ \E res \in {"ok", "error"} :
          IF res = "ok"
          THEN /\ prev' = <<>>
               /\ proc' = [proc EXCEPT !["cmd"] = [@ EXCEPT !.pc = "fetch"]]
          ELSE /\ prev' = prev
               /\ proc' = [proc EXCEPT !["cmd"] = Idle("none")]
    /\ hist' = [hist EXCEPT !.committed = FALSE]
    /\ UNCHANGED <<call, listed, last_known_state, nset, tracked, config, cleanupDone, active, sink>>

\* Lines 540-578: the fetch returns; every server with a watched player
\* gets a notification in the command's channel.
CmdFetchedFrom(listings) ==
    /\ proc["cmd"].pc = "fetch"
    /\ \E data \in listings \cup {NoData} :
          IF IsFailure(data) THEN Goes("cmd", End(proc["cmd"], "skipped"), hist)
          ELSE IF IndexRaises(data, tracked)
          THEN Goes("cmd", End(proc["cmd"], "raised"), hist)
          ELSE Goes("cmd", CmdLoop([proc["cmd"] EXCEPT !.stable = StableState(data, tracked)], 1),
                    hist)
    /\ UNCHANGED <<call, listed, last_known_state, nset, tracked, config, cleanupDone, active, sink>>

CmdFetched == CmdFetchedFrom(Snapshots)

\* -------------------------------------------------------- src/tracker.py
\* Line 13, add_player: tracked_players.add(player_name).  A name that is in
\* the set already changes nothing; a new one lands anywhere in the set's
\* iteration order.  The results the call can have.
add_player(tr, player_name) ==
    IF \E i \in 1..Len(tr) : tr[i] = player_name THEN {tr}
    ELSE {SubSeq(tr, 1, at) \o <<player_name>> \o SubSeq(tr, at + 1, Len(tr)) :
             at \in 0..Len(tr)}

\* A removal that takes every name equal in lower case.
remove_player_all(tr, player_name) ==
    SelectSeq(tr, LAMBDA q : Lower(q) # Lower(player_name))

\* tracker.py lines 15-33, remove_player: the name itself, else the first
\* name equal to it in lower case; at most one name goes.
remove_player(tr, player_name) ==
    IF \E i \in 1..Len(tr) : tr[i] = player_name
    THEN SelectSeq(tr, LAMBDA q : q # player_name)
    ELSE LET S == {i \in 1..Len(tr) : Lower(tr[i]) = Lower(player_name)}
         IN  IF S = {} THEN tr
             ELSE LET at == CHOOSE i \in S : \A n \in S : i <= n
                  IN  SubSeq(tr, 1, at - 1) \o SubSeq(tr, at + 1, Len(tr))

\* Lines 19-32: the entry remove_player takes out, None when there is none.
removed_player(tr, player_name) ==
    IF \E i \in 1..Len(tr) : tr[i] = player_name THEN player_name
    ELSE LET S == {i \in 1..Len(tr) : Lower(tr[i]) = Lower(player_name)}
         IN  IF S = {} THEN None ELSE tr[CHOOSE i \in S : \A n \in S : i <= n]

\* Lines 21-22 and 30-31: the last known state of the entry goes with it.
forget_player(tr, lks, player_name) ==
    LET p == removed_player(tr, player_name)
    IN  IF p # None /\ DictHas(lks, p) THEN DictDel(lks, p) ELSE lks

\* Lines 23, 32, 33: what remove_player returns.
remove_player_returns(tr, player_name) ==
    IF \E i \in 1..Len(tr) : tr[i] = player_name THEN TRUE
    ELSE IF \E i \in 1..Len(tr) : Lower(tr[i]) = Lower(player_name) THEN TRUE
    ELSE FALSE

\* ------------------------------------------------------------------ track
\* Lines 326-337, track add: a name not yet tracked (compared in lower case)
\* goes into the tracker's set, which puts it anywhere in its iteration
\* order; after the reply a missing notification channel is set to the
\* channel of the command (not when the reply raised).
TrackAdd(player_name, c) ==
    /\ \A i \in 1..Len(listed) : Lower(listed[i]) # Lower(player_name)
    /\ listed' = Append(listed, player_name)
    /\ tracked' \in add_player(tracked, player_name)
    /\ \E res \in {"ok", "error"} :
          config' = IF config = None /\ res = "ok" THEN c ELSE config
    /\ UNCHANGED <<call, last_known_state, nset, cleanupDone, prev, active, sink, proc, hist>>

\* Lines 339-347, track remove of a tracked name.
TrackRemove(player_name) ==
    /\ \E i \in 1..Len(listed) : Lower(listed[i]) = Lower(player_name)
    /\ listed' = SelectSeq(listed, LAMBDA q : Lower(q) # Lower(player_name))
    /\ tracked' = remove_player(tracked, player_name)
    /\ last_known_state' = forget_player(tracked, last_known_state, player_name)
    /\ UNCHANGED <<call, nset, config, cleanupDone, prev, active, sink, proc, hist>>

\* Lines 374-377, track interval: check_players_loop.restart() cancels the
\* pass in flight at its await (CancelledError is not an Exception: the
\* except of line 149 does not see it) and the loop starts over.
Restart ==
    /\ proc["tick"].pc # "idle"
    /\ Goes("tick", End(proc["tick"], "cancelled"), hist)
    /\ UNCHANGED <<call, listed, last_known_state, nset, tracked, config, cleanupDone, active, sink>>

\* ------------------------------------------------------------ environment
\* Somebody deletes a message in the chat client.
ExternalDelete ==
    /\ \E m \in DOMAIN sink : sink' = SinkDel(m)
    /\ UNCHANGED <<call, listed, last_known_state, nset, tracked, config, cleanupDone, prev, active, proc, hist>>

\* The timer task.
Loop ==
    \/ TickStart
    \/ TickFetched
    \/ TickHistory
    \/ TickPurge
    \/ TickDelete
    \/ Render("tick")
    \/ Edit("tick")
    \/ Send("tick")

\* The setchannel command.
Command ==
    \/ \E c \in Channels : SetChannel(c)
    \/ CmdCleanup
    \/ CmdConfirm
    \/ CmdFetched
    \/ Render("cmd")
    \/ Edit("cmd")
    \/ Send("cmd")

\* The whole bot: the timer task and the command on one event loop, started
\* on a channel without messages of an earlier run.
InitFresh == Init /\ DOMAIN sink = {}
Next == Loop \/ Command
Spec == InitFresh /\ [][Next]_vars

\* The timer task alone, with messages deleted by hand under it.
NextLoop == Loop \/ ExternalDelete
SpecLoop == Init /\ [][NextLoop]_vars


\* The timer task with the watch-list edited under it, started on a channel
\* that holds a message of an earlier run: two players on one server, or on
\* a server each.
OrderListings ==
    { Snapshot(<<Server(<<A1>>, <<"b", "a">>)>>),
      Snapshot(<<Server(<<A1>>, <<"a">>), Server(<<A2>>, <<"b">>)>>) }
InitOrder == Init /\ config = SystemChannel /\ DOMAIN sink # {}
NextOrder ==
    \/ TickStart
    \/ TickFetchedFrom(OrderListings)
    \/ TickHistory
    \/ TickPurge
    \/ TickDelete
    \/ Render("tick")
    \/ Edit("tick")
    \/ Send("tick")
    \/ TrackRemove("A")
    \/ TrackAdd("a", SystemChannel)
SpecOrder == InitOrder /\ [][NextOrder]_vars

\* The timer task on a directory that lists the addresses of a server in
\* changing order, next to a second server on one of these addresses.
KeyListings ==
    { Snapshot(<<Server(<<A1, A2>>, <<"a">>), Server(<<A2>>, <<"b">>)>>),
      Snapshot(<<Server(<<A2, A1>>, <<"a">>), Server(<<A2>>, <<"b">>)>>),
      Snapshot(<<Server(<<A1, A2>>, <<"a">>)>>),
      Snapshot(<<Server(<<A2, A1>>, <<"a">>)>>) }
NextKeys ==
    \/ TickStart
    \/ TickFetchedFrom(KeyListings)
    \/ TickHistory
    \/ TickPurge
    \/ TickDelete
    \/ Render("tick")
    \/ Edit("tick")
    \/ Send("tick")
SpecKeys == InitOrder /\ [][NextKeys]_vars

\* The timer task, the setchannel command and the restart of the loop on
\* one event loop.
CmdListings ==
    { Snapshot(<<>>),
      Snapshot(<<Server(<<A1>>, <<"a">>), Server(<<A2>>, <<"b">>)>>) }
NextCmd ==
    \/ TickStart
    \/ TickFetchedFrom(CmdListings)
    \/ TickHistory
    \/ TickPurge
    \/ TickDelete
    \/ Render("tick")
    \/ Edit("tick")
    \/ Send("tick")
    \/ \E c \in Channels : SetChannel(c)
    \/ CmdCleanup
    \/ CmdConfirm
    \/ CmdFetchedFrom(CmdListings)
    \/ Render("cmd")
    \/ Edit("cmd")
    \/ Send("cmd")
    \/ Restart
SpecCmd == InitFresh /\ [][NextCmd]_vars

\* ------------------------------------------------ functions on their own
\* The address lists get_server_key is called with.
KeyInputs == UNION {[1..n -> Range(Addrs)] : n \in 0..MaxAddrList}

\* What find_player is handed as the listing: the listings of the directory,
\* the None of a failed fetch, and JSON of other shapes (no server list, a
\* server without info, info without clients, a client without a name).
OddListings ==
    { [error |-> "unavailable"],
      Snapshot(<<[addresses |-> <<A1>>]>>),
      Snapshot(<<[addresses |-> <<A1>>, info |-> [map |-> "Multeasymap"]]>>),
      Snapshot(<<[addresses |-> <<A1>>,
                  info |-> [clients |-> <<[clan |-> "x"], Client("a")>>]]>>),
      Snapshot(<<Server(<<A1>>, <<"A", "b">>), Server(<<A2>>, <<"a", "c">>)>>) }
PlayerInputs == Snapshots \cup {NoData} \cup OddListings
Queries == {"a", "A", "b"}

\* The listings the grouping of lines 72-126 is run on, on its own: two
\* records of one server with the addresses in either order, a player
\* connected to two servers at once, and the listings of the directory that
\* do not make the indexing raise.
GroupListings ==
    { Snapshot(<<Server(<<A1, A2>>, <<"a">>), Server(<<A2, A1>>, <<"b">>)>>),
      Snapshot(<<Server(<<A1>>, <<"a">>), Server(<<A2>>, <<"A", "b">>)>>),
      Snapshot(<<Server(<<A2, A1>>, <<"b", "a">>)>>) }
    \cup {d \in Snapshots : ~IndexRaises(d, <<"a", "b">>)}
WatchOrders == {<<"a", "b">>, <<"b", "a">>, <<"a">>}

Called(fn, args, out) == [fn |-> fn, args |-> args, done |-> TRUE, out |-> out]

CallKey ==
    /\ call.fn = "get_server_key" /\ ~call.done
    /\ call' = Called(call.fn, call.args, get_server_key(call.args))
    /\ UNCHANGED <<listed, last_known_state, tracked, config, cleanupDone, prev, active, sink, proc, hist, nset>>

CallFind ==
    /\ call.fn = "find_player" /\ ~call.done
    /\ call' = Called(call.fn, call.args,
                      find_player(call.args.servers, call.args.player_name))
    /\ UNCHANGED <<listed, last_known_state, tracked, config, cleanupDone, prev, active, sink, proc, hist, nset>>

CallStable ==
    /\ call.fn = "stable_current_state" /\ ~call.done
    /\ call' = Called(call.fn, call.args, StableState(call.args.data, call.args.tr))
    /\ UNCHANGED <<listed, last_known_state, tracked, config, cleanupDone, prev, active, sink, proc, hist, nset>>

InitPure ==
    /\ InitBot /\ config = None /\ DOMAIN sink = {}
    /\ \/ call \in {[fn |-> "get_server_key", args |-> l, done |-> FALSE] : l \in KeyInputs}
       \/ call \in {[fn |-> "find_player", done |-> FALSE,
                      args |-> [servers |-> d, player_name |-> n]] :
                         d \in PlayerInputs, n \in Queries}
       \/ call \in {[fn |-> "stable_current_state", done |-> FALSE,
                      args |-> [data |-> d, tr |-> t]] :
                         d \in GroupListings, t \in WatchOrders}
NextPure == CallKey \/ CallFind \/ CallStable
SpecPure == InitPure /\ [][NextPure]_vars

\* ------------------------------------------------- the tracker on its own
\* last_known_state.get(player_name) for a player without an entry.
NoState == [server_addr |-> None]

\* A classification that takes every sighting for a first one.
SightingAlwaysJoin(last_state, server_addr) == "join"

\* tracker.py lines 65-91: what a sighting on server_addr is, against the
\* player's last known state.
Sighting(last_state, server_addr) ==
    IF last_state = NoState THEN "join"
    ELSE IF last_state.server_addr # server_addr THEN "switch"
    ELSE "same"

Event(type, player_name, server_addr) ==
    [type |-> type, player_name |-> player_name, server_addr |-> server_addr]

\* tracker.py lines 47-102: the loop of check_players from position i of the
\* watch-list, on the events and the last known state built so far.
\* Indexing the address list of a server without addresses raises; the loop
\* ends there and the call returns nothing.
RECURSIVE CheckFrom(_, _, _, _)
CheckFrom(data, tr, i, acc) ==
    IF i > Len(tr) THEN acc
    ELSE LET player_name == tr[i]
             instances == find_player(data, player_name)
         IN  IF instances # <<>>
             THEN LET server_info == instances[1].server
                  IN  IF "addresses" \notin DOMAIN server_info \/ server_info.addresses = <<>>
                      THEN [acc EXCEPT !.raised = TRUE, !.events = <<>>]
                      ELSE LET server_addr == server_info.addresses[1]
                               last_state == DictGet(acc.last_known_state, player_name, NoState)
                               what == Sighting(last_state, server_addr)
                           IN  IF what = "same" THEN CheckFrom(data, tr, i + 1, acc)
                               ELSE CheckFrom(data, tr, i + 1,
                                      [acc EXCEPT
                                         !.last_known_state =
                                             DictSet(@, player_name, [server_addr |-> server_addr]),
                                         !.events = Append(@, Event(what, player_name, server_addr))])
             ELSE IF DictHas(acc.last_known_state, player_name)
             THEN CheckFrom(data, tr, i + 1,
                    [acc EXCEPT !.last_known_state = DictDel(@, player_name),
                                !.events = Append(@, Event("leave", player_name, None))])
             ELSE CheckFrom(data, tr, i + 1, acc)

\* tracker.py lines 40-104, check_players once the fetch has returned.
check_players(data, tr, lks) ==
    IF IsFailure(data)
    THEN [raised |-> FALSE, events |-> <<>>, last_known_state |-> lks]
    ELSE CheckFrom(data, tr, 1, [raised |-> FALSE, events |-> <<>>, last_known_state |-> lks])

\* The tracker as it is before a call.
Self == [tracked_players |-> tracked, last_known_state |-> last_known_state]

\* tracker.add_player(player_name), called on its own.
AddPlayer(player_name) ==
    /\ tracked' \in add_player(tracked, player_name)
    /\ UNCHANGED <<call, listed, last_known_state, nset, config, cleanupDone, prev, active,
                   sink, proc, hist>>

\* tracker.remove_player(player_name), called on its own.
RemovePlayer(player_name) ==
    /\ tracked' = remove_player(tracked, player_name)
    /\ last_known_state' = forget_player(tracked, last_known_state, player_name)
    /\ call' = Called("remove_player", [self |-> Self, player_name |-> player_name],
                      [returns |-> remove_player_returns(tracked, player_name),
                       tracked_players |-> tracked',
                       last_known_state |-> last_known_state'])
    /\ UNCHANGED <<listed, nset, config, cleanupDone, prev, active, sink, proc, hist>>

\* tracker.check_players(), called on its own: the fetch returns a listing
\* or fails, and the call runs to its end.
CheckPlayers ==
    /\ \E data \in Snapshots \cup {NoData} :
          LET r == check_players(data, tracked, last_known_state)
          IN  /\ last_known_state' = r.last_known_state
              /\ call' = Called("check_players", [self |-> Self, data |-> data], r)
    /\ UNCHANGED <<tracked, listed, nset, config, cleanupDone, prev, active, sink, proc, hist>>

\* The names given to the track command and to the tracker.
Names == {"a", "A", "b"}

\* config['tracked_players'] as config.json has it at the start.
ConfigFiles == {<<>>, <<"a", "b">>, <<"a", "A">>}

\* main.py lines 35-36: the tracker's set after add_player of every name of
\* the list, in the orders it can have.
RECURSIVE Preload(_)
Preload(players) ==
    IF players = <<>> THEN {<<>>}
    ELSE UNION {add_player(tr, players[Len(players)]) :
                   tr \in Preload(SubSeq(players, 1, Len(players) - 1))}

InitTracker ==
    /\ listed \in ConfigFiles
    /\ tracked \in Preload(listed)
    /\ last_known_state = <<>>
    /\ config = SystemChannel
    /\ cleanupDone = FALSE
    /\ prev = <<>>
    /\ active = <<>>
    /\ sink = [m \in {} |-> Leftover]
    /\ proc = [p \in {"tick", "cmd"} |-> Idle("none")]
    /\ hist = [snap |-> NoData, committed |-> FALSE, purges |-> 0]
    /\ nset = 0
    /\ call = NoCall
\* The tracker's methods called in any order.
NextTracker ==
    \/ \E n \in Names : AddPlayer(n)
    \/ \E n \in Names : RemovePlayer(n)
    \/ CheckPlayers
SpecTracker == InitTracker /\ [][NextTracker]_vars

\* The watch-list under the track command and the tracker's own methods.
NextWatch ==
    \/ \E n \in Names : TrackAdd(n, SystemChannel)
    \/ \E n \in Names : TrackRemove(n)
    \/ \E n \in Names : AddPlayer(n)
    \/ \E n \in Names : RemovePlayer(n)
SpecWatch == InitTracker /\ [][NextWatch]_vars

\* ================================================================ claims
Tick == proc["tick"]
\* A step of the timer task.
TickMoves == proc'["tick"] # proc["tick"]
\* The tick ran to its commit.
Applied == Tick.pc = "idle" /\ Tick.result = "applied"
\* The tick issued no operation: no send, no edit, no delete.
Silent == Tick.log = NoLog
SetOf(d, k) == Range(DictGet(d, k, <<>>))
\* The state the last fetched listing calls for.
Wanted == StableState(hist.snap, tracked)

\* The tick has issued no send, no edit and no delete of a notification.
NoSinkCall ==
    /\ Tick.pc \notin {"edit", "send", "delete"}
    /\ Tick.log.edit = "none" /\ Tick.log.send = "none" /\ Tick.log.del = "none"

\* C1 (as stated): a tick that fetches the same listing as the tick before it
\* issues no send, no edit and no delete.
C1_SameSnapshotSilent == Tick.same => NoSinkCall

\* C1 (amended): a tick that fetches the same listing as the tick before it,
\* when that tick ran to its commit and no setchannel command ran since,
\* issues no send, no edit and no delete, and ends within the step that
\* receives the listing.
C1_SteadyTickSilent == Tick.steady => (Silent /\ Tick.pc = "idle")

C1_Witness == Tick.steady /\ Applied /\ prev # <<>> /\ active # <<>>

\* C2: a tick whose fetch fails ends at once, issues no operation and leaves
\* previous_server_state, the bindings, the sink and the cleanup flag as they
\* were.
C2_FetchFailureSkips ==
    [][(Tick.pc = "fetch" /\ TickMoves /\ hist'.snap = NoData)
          => /\ proc'["tick"].pc = "idle"
             /\ proc'["tick"].result = "skipped"
             /\ proc'["tick"].log = NoLog
             /\ UNCHANGED <<prev, active, sink, cleanupDone>>]_vars

C2_Witness == Tick.result = "skipped" /\ prev # <<>> /\ active # <<>>

\* C3: once the startup cleanup is over, no server key has two live messages
\* sent by this process.
OwnLive(k) == {m \in DOMAIN sink : sink[m].author = "self" /\ sink[m].key = k}
C3_OneRecordPerServer ==
    (cleanupDone /\ Tick.pc \notin {"history", "purge"})
        => \A k \in Range(Addrs) : Cardinality(OwnLive(k)) <= 1

\* C4: when the send of an Upsert fails (here: of the tick's last operation),
\* the committed previous_server_state does not hold the new player set for
\* that key, so that the next tick notifies again.
C4_FailedUpsertNotFolded ==
    (Applied /\ hist.committed /\ Tick.log.op = "upsert" /\ Tick.log.send = "error")
        => SetOf(prev, Tick.log.key) # SetOf(Wanted, Tick.log.key)

\* C5: convergence.  A tick that found the listing of the committed tick
\* before it and had nothing to do has reached the state the loop stays in
\* while listing and sink stay as they are; in it the keys bound to a live
\* message are the keys with watched players, and each message shows the
\* key's players.
Converged ==
    /\ {k \in DictKeys(active) : DictGet(active, k, 0) \in DOMAIN sink} = DictKeys(Wanted)
    /\ \A k \in DictKeys(Wanted) :
          /\ DictHas(active, k)
          /\ DictGet(active, k, 0) \in DOMAIN sink
          /\ Range(sink[DictGet(active, k, 0)].names) = SetOf(Wanted, k)
C5_Converges == (Tick.steady /\ Applied) => Converged

\* C6: an edit that reports not-found goes on to send for the same key in the
\* same tick, and a send that succeeds leaves the key bound to the new
\* message, which is live in the tick's channel and shows the key's players.
C6_NotFoundSendsAndRebinds ==
    [][\A p \in DOMAIN proc :
          /\ (proc[p].pc = "edit" /\ proc'[p] # proc[p] /\ proc'[p].log.edit = "notfound")
                => /\ proc'[p].pc = "send"
                   /\ proc'[p].idx = proc[p].idx
                   /\ proc'[p].stable = proc[p].stable
          /\ (proc[p].pc = "send" /\ proc'[p] # proc[p] /\ proc'[p].log.send = "ok")
                => LET k == CurKey(proc[p])
                       m == DictGet(active', k, 0)
                   IN  /\ m # 0
                       /\ m \notin DOMAIN sink
                       /\ m \in DOMAIN sink'
                       /\ m # DictGet(active, k, 0)
                       /\ sink'[m] = [chan |-> proc[p].chan, author |-> "self",
                                      key |-> k, names |-> CurNames(proc[p])]]_vars

C6_Witness ==
    /\ Tick.log.edit = "notfound"
    /\ Tick.log.send = "ok"
    /\ DictGet(active, Tick.log.key, 0) \in DOMAIN sink

\* C7: an edit that fails with another error than not-found is not followed
\* by a send for that key.
C7_EditErrorNoSend ==
    [][\A p \in DOMAIN proc :
          (proc[p].pc = "edit" /\ proc'[p] # proc[p] /\ proc'[p].log.edit = "error")
              => proc'[p].pc # "send"]_vars

\* C8: a Remove issues its delete only for a bound key, on the bound message;
\* when the delete returns, with whatever result, the key is unbound and the
\* other bindings are as before.
C8_RemoveUnbinds ==
    [][/\ (TickMoves /\ proc'["tick"].pc = "delete")
            => /\ DictHas(active', proc'["tick"].key)
               /\ proc'["tick"].msg = DictGet(active', proc'["tick"].key, 0)
               /\ ~DictHas(proc'["tick"].stable, proc'["tick"].key)
       /\ (TickMoves /\ Tick.pc = "delete")
            => /\ ~DictHas(active', Tick.key)
               /\ \A k \in Range(Addrs) \ {Tick.key} :
                     DictGet(active', k, 0) = DictGet(active, k, 0)
       /\ (TickMoves /\ Tick.pc # "delete" /\ Tick.pc # "send")
            => active' = active]_vars

C8_Witness ==
    /\ Applied
    /\ Tick.log.op = "remove"
    /\ Tick.log.del = "error"
    /\ ~DictHas(active, Tick.log.key)
    /\ OwnLive(Tick.log.key) # {}

\* C9: when a tick commits, every key that still has a binding is a key of
\* the state the tick commits.
C9_BindingsWithinState ==
    [][(TickMoves /\ proc'["tick"].pc = "idle" /\ proc'["tick"].result = "applied")
          => DictKeys(active') \subseteq DictKeys(prev')]_vars

\* C10 (as stated): the cleanup starts at most once, and it has started once
\* a tick has fetched successfully.
FetchedResults == {"indexerror", "nochannel", "raised", "applied"}
C10_PurgeInFirstFetchedTick ==
    /\ hist.purges <= 1
    /\ Tick.result \in FetchedResults => hist.purges = 1

\* C10 (amended): the cleanup starts at most once; it has started exactly
\* when the flag is set, and it has started once a tick has fetched
\* successfully, indexed the listing without an exception and found a
\* channel, whatever the cleanup itself ran into.
PastChannel ==
    \/ Tick.pc \in {"history", "purge", "render", "edit", "send", "delete"}
    \/ Tick.result \in {"raised", "applied"}
C10_PurgeOnce ==
    /\ hist.purges <= 1
    /\ cleanupDone <=> hist.purges = 1
    /\ PastChannel => hist.purges = 1

C10_Witness ==
    /\ hist.purges = 1
    /\ Tick.steady /\ Applied
    /\ \E m \in DOMAIN sink : sink[m].author = "prior"

\* C13: get_server_key returns "unknown" for an empty list, else the least
\* element of the list in string order, and the same key for every list with
\* the same set of addresses (any order, any repetition).
C13_KeyIsMinimum ==
    (call.fn = "get_server_key" /\ call.done)
        => /\ call.args = <<>> => call.out = "unknown"
           /\ call.args # <<>>
                 => /\ call.out \in Range(call.args)
                    /\ \A b \in Range(call.args) : StrLeq(call.out, b)
           /\ \A l \in KeyInputs :
                 Range(l) = Range(call.args) => get_server_key(l) = call.out

C13_Witness ==
    /\ call.fn = "get_server_key" /\ call.done
    /\ call.args = <<Addrs[3], Addrs[2], Addrs[3]>>
    /\ call.out = Addrs[2]

\* The (server, client) pairs of a listing whose client name is the queried
\* name up to case.
MatchingPairs(servers, player_name) ==
    IF servers = NoData \/ "servers" \notin DOMAIN servers THEN {}
    ELSE UNION {
           LET srv == servers.servers[i]
           IN  IF "info" \in DOMAIN srv /\ "clients" \in DOMAIN srv.info
               THEN {<<i, j>> : j \in {n \in 1..Len(srv.info.clients) :
                        /\ "name" \in DOMAIN srv.info.clients[n]
                        /\ Lower(srv.info.clients[n].name) = Lower(player_name)}}
               ELSE {}
           : i \in 1..Len(servers.servers)}
PairMatch(servers, pr) ==
    [player |-> servers.servers[pr[1]].info.clients[pr[2]],
     server |-> servers.servers[pr[1]]]

\* C18: find_player returns one match for every (server, client) pair whose
\* client has the queried name up to case and nothing else; without a server
\* list, or with servers without client lists, it returns no match.
C18_AllMatches ==
    (call.fn = "find_player" /\ call.done)
        => LET P == MatchingPairs(call.args.servers, call.args.player_name)
           IN  /\ Len(call.out) = Cardinality(P)
               /\ \A pr \in P : \E i \in 1..Len(call.out) :
                     call.out[i] = PairMatch(call.args.servers, pr)
               /\ \A i \in 1..Len(call.out) : \E pr \in P :
                     call.out[i] = PairMatch(call.args.servers, pr)

C18_Witness ==
    /\ call.fn = "find_player" /\ call.done
    /\ call.args.player_name = "a"
    /\ Len(call.out) = 2
    /\ call.out[1].player.name = "A"
    /\ call.out[2].server.addresses = <<A2>>

\* The watched names found on a server record.
WatchedOn(srv, tr) == {n \in Range(tr) : ServerMatches(srv, Lower(n)) # <<>>}
KeyOf(srv) == get_server_key(srv.addresses)

\* C16: two server records that host watched players and have the same key
\* give that key the watched players of both.
C16_CollisionIsUnion ==
    (call.fn = "stable_current_state" /\ call.done)
        => LET srvs == call.args.data.servers
               tr == call.args.tr
           IN  \A i, j \in 1..Len(srvs) :
                  (/\ i # j
                   /\ KeyOf(srvs[i]) = KeyOf(srvs[j])
                   /\ WatchedOn(srvs[i], tr) # {}
                   /\ WatchedOn(srvs[j], tr) # {})
                     => (WatchedOn(srvs[i], tr) \cup WatchedOn(srvs[j], tr))
                            \subseteq SetOf(call.out, KeyOf(srvs[i]))

\* C17: a watched player found on two servers with different keys is among
\* the players of both keys.
C17_MultiBoxBothKeys ==
    (call.fn = "stable_current_state" /\ call.done)
        => LET srvs == call.args.data.servers
               tr == call.args.tr
           IN  \A i, j \in 1..Len(srvs) : \A n \in Range(tr) :
                  (/\ KeyOf(srvs[i]) # KeyOf(srvs[j])
                   /\ n \in WatchedOn(srvs[i], tr)
                   /\ n \in WatchedOn(srvs[j], tr))
                     => /\ n \in SetOf(call.out, KeyOf(srvs[i]))
                        /\ n \in SetOf(call.out, KeyOf(srvs[j]))

\* C11: started with no bindings on a channel that holds messages of an
\* earlier run, the bot has deleted all of them once its cleanup is over, and
\* it has sent nothing before that.
C11_PurgeRemovesLeftovers ==
    /\ (cleanupDone /\ Tick.pc \notin {"history", "purge"})
          => \A m \in DOMAIN sink : sink[m].author # "prior"
    /\ Tick.pc \in {"history", "purge"}
          => \A m \in DOMAIN sink : sink[m].author # "self"

\* The keys the diff of a listing against the previous state has an
\* operation for: Upsert for the new and the changed, Remove for the gone.
Needed(stable, prevNow) ==
    {k \in DictKeys(stable) : NeedsUpsert(DictGet(stable, k, <<>>), DictGet(prevNow, k, <<>>))}
    \cup (DictKeys(prevNow) \ DictKeys(stable))
OpKeys(ops) == {ops[i].key : i \in 1..Len(ops)}

\* C20: when a tick that has started its operations ends, every operation
\* of its diff has been attempted, whatever calls failed on the way.
C20_FailureIsolated ==
    [][(TickMoves /\ Tick.pc \in {"render", "edit", "send", "delete"}
           /\ proc'["tick"].pc = "idle")
          => Needed(Tick.stable, prev) \subseteq OpKeys(proc'["tick"].ops)]_vars

\* C14: change detection compares sets of names.  Each time the first loop
\* of a tick runs on, from the key it stood at to the next key it notifies
\* (or to its end), the keys it passed over were in the previous state with
\* the same set of players, in whatever order, and the key it notifies is
\* new or has another set of players.
C14_SetEqualityDiff ==
    [][(/\ TickMoves
        /\ Tick.pc \in {"fetch", "history", "purge", "edit", "send"}
        /\ \/ proc'["tick"].pc \in {"render", "delete"}
           \/ proc'["tick"].pc = "idle" /\ proc'["tick"].result = "applied")
          => LET S == IF proc'["tick"].pc # "idle" THEN proc'["tick"].stable
                      ELSE IF Tick.pc = "fetch" THEN StableState(hist'.snap, tracked)
                      ELSE Tick.stable
                 from == IF Tick.pc \in {"edit", "send"} THEN Tick.idx ELSE 0
                 to == IF proc'["tick"].pc = "render" THEN proc'["tick"].idx
                       ELSE Len(S) + 1
             IN  /\ \A n \in (from + 1)..(to - 1) :
                       /\ DictHas(prev, S[n].k)
                       /\ Range(S[n].v) = SetOf(prev, S[n].k)
                 /\ to <= Len(S)
                       => \/ ~DictHas(prev, S[to].k)
                          \/ Range(S[to].v) # SetOf(prev, S[to].k)]_vars

C14_Witness ==
    /\ Tick.reorder
    /\ Applied
    /\ Tick.ops = <<>>
    /\ Len(prev) = 1 /\ prev[1].v = <<"b", "a">>

\* The servers of a listing that differ from the listing before only in the
\* order of their addresses, every other server being the same.
PermutedServers(old, new) ==
    IF Len(old.servers) # Len(new.servers) THEN {}
    ELSE {i \in 1..Len(old.servers) :
            /\ \A j \in 1..Len(old.servers) : j # i => old.servers[j] = new.servers[j]
            /\ old.servers[i].addresses # new.servers[i].addresses
            /\ Range(old.servers[i].addresses) = Range(new.servers[i].addresses)
            /\ Len(old.servers[i].addresses) = Len(new.servers[i].addresses)
            /\ old.servers[i].info = new.servers[i].info}

\* C12: a tick that follows a committed tick and finds a server with nothing
\* but the order of its addresses changed has no Upsert and no Remove for
\* the key of that server.
C12_StableKeying ==
    [][(/\ TickMoves /\ Tick.pc = "fetch"
        /\ hist.committed /\ hist.snap # NoData /\ hist'.snap # NoData
        /\ proc'["tick"].result \in {"running", "applied"})
          => \A i \in PermutedServers(hist.snap, hist'.snap) :
                LET k == KeyOf(hist.snap.servers[i])
                IN  /\ k \notin Needed(StableState(hist'.snap, tracked), prev)
                    /\ k \notin OpKeys(proc'["tick"].ops)]_vars

HasOp(ops, op, k) == \E i \in 1..Len(ops) : ops[i] = [op |-> op, key |-> k]

\* C15: when a tick that has started its operations ends, and a player of
\* key S1 of the previous state is now on another key S2 and no longer on
\* S1, the tick has emitted Upsert(S2) and, for S1, Remove if no watched
\* player is left there and Upsert otherwise.
C15_SwitchEmitsBoth ==
    [][(TickMoves /\ Tick.pc \in {"render", "edit", "send", "delete"}
           /\ proc'["tick"].pc = "idle")
          => \A S1 \in DictKeys(prev), S2 \in DictKeys(Tick.stable) :
               \A P \in SetOf(prev, S1) :
                  (S1 # S2 /\ P \in SetOf(Tick.stable, S2) /\ P \notin SetOf(Tick.stable, S1))
                     => /\ HasOp(proc'["tick"].ops, "upsert", S2)
                        /\ IF DictHas(Tick.stable, S1)
                           THEN HasOp(proc'["tick"].ops, "upsert", S1)
                           ELSE HasOp(proc'["tick"].ops, "remove", S1)]_vars

\* A task is between its first read of the previous state or the bindings
\* and its commit.
InPass(p) == proc[p].pc \in {"render", "edit", "send", "delete"}

\* C19: the timer tick and the pass of setchannel are never both under way,
\* and no tick that has started its operations is cut short.
C19_PassesDoNotOverlap ==
    /\ ~(InPass("tick") /\ InPass("cmd"))
    /\ Tick.result = "cancelled" => Tick.ops = <<>>

\* The timer task on a directory that lists a server without addresses next
\* to a server with one.
DropListings ==
    { Snapshot(<<>>),
      Snapshot(<<Server(<<A2>>, <<"b">>)>>),
      Snapshot(<<Server(<<A2>>, <<"b", "a">>)>>),
      Snapshot(<<Server(<<>>, <<"a">>), Server(<<A2>>, <<"b">>)>>) }
NextDrop ==
    \/ TickStart
    \/ TickFetchedFrom(DropListings)
    \/ TickHistory
    \/ TickPurge
    \/ TickDelete
    \/ Render("tick")
    \/ Edit("tick")
    \/ Send("tick")
SpecDrop == InitOrder /\ [][NextDrop]_vars

\* A listing without its servers that have no address.
Addressed(data) ==
    Snapshot(SelectSeq(data.servers,
                       LAMBDA s : "addresses" \in DOMAIN s /\ s.addresses # <<>>))

\* C21: a tick that fetches a listing and finds a channel goes on to
\* reconcile the servers that have an address: it does not end on the server
\* without one, and the state it works on is the state of the listing without
\* that server.
C21_UnaddressedDropped ==
    [][(/\ TickMoves /\ Tick.pc = "fetch"
        /\ hist'.snap # NoData
        /\ proc'["tick"].result # "nochannel")
          => /\ proc'["tick"].result \in {"running", "applied"}
             /\ proc'["tick"].pc # "idle"
                   => proc'["tick"].stable = StableState(Addressed(hist'.snap), tracked)]_vars

\* C22: remove_player(name) takes out name itself when it is on the
\* watch-list, else the first entry equal to it in lower case, and never more
\* than one entry; it returns true exactly when an entry went, and a call that
\* returns false leaves the watch-list and the last known state as they were.
C22_RemoveOne ==
    (call.fn = "remove_player" /\ call.done)
        => LET tr == call.args.self.tracked_players
               n == call.args.player_name
               before == Range(tr)
               after == Range(call.out.tracked_players)
               ci == {i \in 1..Len(tr) : Lower(tr[i]) = Lower(n)}
           IN  /\ after \subseteq before
               /\ Cardinality(before \ after) <= 1
               /\ n \in before => after = before \ {n}
               /\ (n \notin before /\ ci # {})
                     => after = before \ {tr[CHOOSE i \in ci : \A j \in ci : i <= j]}
               /\ call.out.returns <=> after # before
               /\ ~call.out.returns
                     => /\ call.out.tracked_players = tr
                        /\ call.out.last_known_state = call.args.self.last_known_state

C22_Witness ==
    /\ call.fn = "remove_player" /\ call.done
    /\ call.args.player_name = "A"
    /\ call.args.self.tracked_players = <<"b", "a">>
    /\ DictHas(call.args.self.last_known_state, "a")
    /\ call.out.returns
    /\ call.out.tracked_players = <<"b">>
    /\ DictKeys(call.out.last_known_state) = {"b"}

\* C23: the watch-list of the tracker never holds two names that are equal
\* in lower case.
C23_NoCaseDuplicates ==
    \A i, j \in 1..Len(tracked) :
        i # j => Lower(tracked[i]) # Lower(tracked[j])

\* The Upsert of key k creates the key or adds a player to it.
Grows(k) == SetOf(Tick.stable, k) \ SetOf(prev, k) # {}

\* C24: when a tick issues the delete of a Remove, or the edit or send of an
\* Upsert that only takes players off a key, it has issued no Upsert before
\* that creates a key or adds a player.
C24_ShrinksBeforeGrows ==
    (Tick.pc \in {"edit", "send", "delete"} /\ Tick.ops # <<>>)
        => LET last == Tick.ops[Len(Tick.ops)]
           IN  (last.op = "remove" \/ ~Grows(last.key))
                  => \A i \in 1..(Len(Tick.ops) - 1) :
                        ~(Tick.ops[i].op = "upsert" /\ Grows(Tick.ops[i].key))

\* The state a step of the tick works on: that of the listing it receives,
\* or the one the tick holds.
StableNow ==
    IF Tick.pc = "fetch" THEN StableState(hist'.snap, tracked) ELSE Tick.stable

\* C26: a step of the tick leaves previous_server_state as it is, except the
\* step that ends the tick after every operation of its diff was attempted:
\* that step replaces it by the whole state of the listing.  A tick that ends
\* in any other way leaves it at its value from before the tick.
C26_PrevReplacedAsAWhole ==
    [][TickMoves
          => IF proc'["tick"].pc = "idle" /\ proc'["tick"].result = "applied"
             THEN /\ prev' = StableNow
                  /\ Needed(StableNow, prev) \subseteq OpKeys(proc'["tick"].ops)
             ELSE prev' = prev]_vars

C26_Witness ==
    /\ Tick.pc = "idle" /\ Tick.result = "raised"
    /\ Len(Tick.ops) = 2
    /\ prev # <<>>
    /\ DictKeys(prev) # DictKeys(Wanted)

\* Task p has read the binding of a key and awaits the sink call after which
\* it writes or deletes that binding.
Holding(p) == proc[p].pc \in {"edit", "send", "delete"}
HeldKey(p) == IF proc[p].pc = "delete" THEN proc[p].key ELSE CurKey(proc[p])

\* C25: while an operation of one task holds a key, between its read of the
\* binding and its write, no step of another task replaces or clears the
\* binding of that key.
C25_KeyHeldExclusively ==
    [][\A p \in DOMAIN proc :
          (Holding(p) /\ proc'[p] = proc[p])
              => DictGet(active', HeldKey(p), 0) = DictGet(active, HeldKey(p), 0)]_vars

\* The keys whose binding is message m.
BoundTo(m) == {k \in DictKeys(active) : DictGet(active, k, 0) = m}

\* C27: once the startup cleanup has run, at the end of a tick every live
\* message this process has sent is the binding of exactly one key.
C27_NoOrphans ==
    (cleanupDone /\ Applied)
        => \A m \in DOMAIN sink :
              sink[m].author = "self" => Cardinality(BoundTo(m)) = 1

\* C28: a tick that fetches a listing and finds no channel ends at once,
\* issues no operation and leaves previous_server_state, the bindings, the
\* sink and the cleanup flag as they were; a tick that finds a channel while
\* the cleanup has not run starts it, before any operation.
C28_NoChannelDefers ==
    [][(TickMoves /\ Tick.pc = "fetch")
          => /\ proc'["tick"].result = "nochannel"
                   => /\ hist'.snap # NoData
                      /\ proc'["tick"].pc = "idle"
                      /\ proc'["tick"].log = NoLog
                      /\ proc'["tick"].ops = <<>>
                      /\ UNCHANGED <<prev, active, sink, cleanupDone>>
             /\ (~cleanupDone /\ proc'["tick"].result \notin {"skipped", "indexerror", "nochannel"})
                   => /\ proc'["tick"].pc = "history"
                      /\ proc'["tick"].ops = <<>>
                      /\ cleanupDone'
                      /\ hist'.purges = hist.purges + 1]_vars

C28_Witness ==
    /\ Tick.pc = "idle" /\ Tick.result = "nochannel"
    /\ ~cleanupDone /\ hist.purges = 0
    /\ \E m \in DOMAIN sink : sink[m].author = "prior"
    /\ Len(Wanted) = 2
    /\ prev = <<>>

\* C29: a message the startup cleanup deletes is bound to no key at the time.
C29_PurgeSparesBound ==
    [][(TickMoves /\ Tick.pc = "purge")
          => \A m \in DOMAIN sink \ DOMAIN sink' :
                m \notin Range(DictValues(active))]_vars

\* The events of a call that are about player n.
EventsOf(events, n) == {i \in 1..Len(events) : events[i].player_name = n}

\* C30: a call of check_players returns at most one event for a player of
\* the watch-list; a join only for a player without a last known state, a
\* switch or a leave only for a player with one; nothing for a player found
\* on the first address of its last known state; and a call whose fetch
\* fails returns no event and leaves the last known state as it was.
C30_WellFormedEvents ==
    (call.fn = "check_players" /\ call.done)
        => LET data == call.args.data
               tr == call.args.self.tracked_players
               lks == call.args.self.last_known_state
               events == call.out.events
           IN  /\ \A n \in Range(tr) : Cardinality(EventsOf(events, n)) <= 1
               /\ \A i \in 1..Len(events) :
                     /\ events[i].player_name \in Range(tr)
                     /\ events[i].type \in {"join", "switch", "leave"}
                     /\ events[i].type = "join" <=> ~DictHas(lks, events[i].player_name)
               /\ \A n \in Range(tr) :
                     LET instances == find_player(data, n)
                     IN  (/\ instances # <<>>
                          /\ instances[1].server.addresses # <<>>
                          /\ DictHas(lks, n)
                          /\ DictGet(lks, n, NoState).server_addr
                                = instances[1].server.addresses[1])
                            => EventsOf(events, n) = {}
               /\ data = NoData
                     => /\ events = <<>>
                        /\ ~call.out.raised
                        /\ call.out.last_known_state = lks

C30_Witness ==
    /\ call.fn = "check_players" /\ call.done
    /\ call.args.self.tracked_players = <<"a", "b">>
    /\ DictKeys(call.args.self.last_known_state) = {"a", "b"}
    /\ Len(call.out.events) = 1
    /\ call.out.events[1] = Event("switch", "b", A2)

=============================================================================
